---- MODULE Spec2Model ----
(***************************************************************************)
(* WebViewManager (components/compositing/webview_manager.rs): the         *)
(* registry of webviews, their rendering groups and the per-group painting *)
(* order.  One action per method; a Rust panic (a failed unwrap, expect,   *)
(* assert or panic!) ends the run with ret.kind = "Panic" and the fields   *)
(* as the method left them at the point of the panic.                      *)
(***************************************************************************)
EXTENDS Integers, Sequences, FiniteSets

\* Bounds of the model.
MaxView == 3
MaxGroup == 2

\* WebViewId values, WebView payloads (the type parameter; chars in the unit
\* test) and the RenderingGroupId values a caller may pass (live or not).
WebViewIds == 1..MaxView
WebViews == {"a", "b"}
GroupIds == 1..MaxGroup

VARIABLES
    webviews,            \* HashMap<WebViewId, WebView>
    rendering_contexts,  \* HashMap<RenderingGroupId, WebRenderInstance>
    webview_groups,      \* HashMap<WebViewId, RenderingGroupId>
    painting_order,      \* HashMap<RenderingGroupId, Vec<WebViewId>>
    last_used_id,        \* Option<RenderingGroupId>
    op,                  \* the method call that produced this state
    ret,                 \* what that call returned
    pre,                 \* the fields as they were when that call began
    sent,                \* the RenderApi::send_transaction calls it made
    sender               \* the CompositorMsgs it sent on the CompositorProxy

vars == <<webviews, rendering_contexts, webview_groups, painting_order,
          last_used_id, op, ret, pre, sent, sender>>

fields == <<webviews, rendering_contexts, webview_groups, painting_order,
            last_used_id>>

----------------------------------------------------------------------------
\* Return values.  kind tells which of the other fields is meaningful.
Value(kind, b, n, w, s) ==
    [kind |-> kind, bool |-> b, num |-> n, webview |-> w, seq |-> s]

\* Stands for a webview where the value holds none.
NoWebView == "-"

\* Ok(bool) of show / hide / raise_to_top.
OkBool(b) == Value("Ok", b, 0, NoWebView, <<>>)

\* Ok(WebView) of remove.
OkWebView(w) == Value("OkWebView", FALSE, 0, w, <<>>)

\* Err(UnknownWebView(webview_id)).
UnknownWebView(webview_id) == Value("UnknownWebView", FALSE, webview_id, NoWebView, <<>>)

\* Option::Some / Option::None of a RenderingGroupId, of a WebView.
SomeOf(x) == Value("Some", FALSE, x, NoWebView, <<>>)

SomeWebView(w) == Value("Some", FALSE, 0, w, <<>>)

NoneOf == Value("None", FALSE, 0, NoWebView, <<>>)

\* A plain bool (hide_all).
Bool(b) == Value("Bool", b, 0, NoWebView, <<>>)

\* A RenderingGroupId (add_webview_group).
GroupIdOf(g) == Value("GroupId", FALSE, g, NoWebView, <<>>)

\* The items an iterator yields (painting_order).
Items(s) == Value("Items", FALSE, 0, NoWebView, s)

\* () of add_webview and new.
Unit == Value("Unit", FALSE, 0, NoWebView, <<>>)

\* The call did not return: an unwrap/expect/assert/panic! failed.
Panic == Value("Panic", FALSE, 0, NoWebView, <<>>)

\* The ids add_webview_group hands out, in the order groups() lists them.
GroupIdsOf(s) == Value("GroupIds", FALSE, 0, NoWebView, s)

\* A Transaction: one the caller passes, or the n-th one the
\* transaction_creator of send_transaction_all makes.
Transaction(by, n) == [by |-> by, n |-> n]

Transactions == {Transaction("caller", 1), Transaction("caller", 2)}

NoTransaction == Transaction("-", 0)

\* One webrender_api.send_transaction(document, transaction) call, made on
\* the RenderApi of the WebRenderInstance of group.
Delivery(group, document, transaction) ==
    [group |-> group, document |-> document, transaction |-> transaction]

\* The (WebViewId, WebView, WebRenderInstance) triples of my_iter_mut.
WebViewInstances(s) == Value("WebViewInstances", FALSE, 0, NoWebView, s)

\* The (DocumentId, bool) pairs MyRenderNotifier::get hands out.
FrameReadyMsgs(s) == Value("FrameReadyMsgs", FALSE, 0, NoWebView, s)

\* The DocumentId of document_id.
DocumentIdOf(d) == Value("DocumentId", FALSE, d, NoWebView, <<>>)

\* CompositorMsg::NewWebRenderFrameReady(document_id, render).
NewWebRenderFrameReady(document_id, render) ==
    [document_id |-> document_id, render |-> render]

\* The call recorded in op.  0, NoWebView, NoTransaction and FALSE stand
\* for an argument the method lacks.
Call(name, group_id, webview_id, webview) ==
    [name |-> name, group_id |-> group_id, webview_id |-> webview_id,
     webview |-> webview, transaction |-> NoTransaction, render |-> FALSE]

TransactionCall(name, group_id, webview_id, transaction) ==
    [name |-> name, group_id |-> group_id, webview_id |-> webview_id,
     webview |-> NoWebView, transaction |-> transaction, render |-> FALSE]

\* A call on the notifier of the WebRenderInstance of group_id.
NotifierCall(name, group_id, render) ==
    [name |-> name, group_id |-> group_id, webview_id |-> 0,
     webview |-> NoWebView, transaction |-> NoTransaction, render |-> render]

Panicked == ret.kind = "Panic"

\* The fields of the manager, as a record.
Snapshot ==
    [webviews |-> webviews, rendering_contexts |-> rendering_contexts,
     webview_groups |-> webview_groups, painting_order |-> painting_order,
     last_used_id |-> last_used_id]

----------------------------------------------------------------------------
\* HashMap helpers.
Insert(map, k, v) == [x \in DOMAIN map \cup {k} |-> IF x = k THEN v ELSE map[x]]

RemoveKey(map, k) == [x \in DOMAIN map \ {k} |-> map[x]]

\* entry(k).or_insert(v): inserts only when k is absent.
OrInsert(map, k, v) == IF k \in DOMAIN map THEN map ELSE Insert(map, k, v)

\* Vec helpers.
Contains(s, x) == \E i \in 1..Len(s) : s[i] = x

\* Vec::retain(|b| *b != webview_id).
Retain(s, webview_id) == SelectSeq(s, LAMBDA b : b # webview_id)

\* Vec::last() != Some(&webview_id).
LastIsNot(s, webview_id) == Len(s) = 0 \/ s[Len(s)] # webview_id

EmptyMap == [x \in {} |-> 0]

\* The orders in which a HashMap may yield the keys in S.
Orderings(S) ==
    {s \in [1..Cardinality(S) -> S] : \A i, j \in DOMAIN s : i # j => s[i] # s[j]}

----------------------------------------------------------------------------
Init ==
    /\ webviews = EmptyMap
    /\ rendering_contexts = EmptyMap
    /\ webview_groups = EmptyMap
    /\ painting_order = EmptyMap
    /\ last_used_id = NoneOf
    /\ op = Call("new", 0, 0, NoWebView)
    /\ ret = Unit
    /\ pre = Snapshot
    /\ sent = <<>>
    /\ sender = <<>>

\* group_painting_order_mut: both unwraps succeed exactly when the webview
\* has a group and that group has a painting order.
group_painting_order_mut_panics(groups, order, webview_id) ==
    \/ webview_id \notin DOMAIN groups
    \/ groups[webview_id] \notin DOMAIN order


\* get / get_mut: the stored webview or None.
get(views, webview_id) ==
    IF webview_id \in DOMAIN views THEN SomeWebView(views[webview_id]) ELSE NoneOf

\* group_id: the webview's group or None.
group_id(groups, webview_id) ==
    IF webview_id \in DOMAIN groups THEN SomeOf(groups[webview_id]) ELSE NoneOf

\* show without the contains_key check on webviews.
show_unchecked(views, groups, order, webview_id) ==
    IF group_painting_order_mut_panics(groups, order, webview_id)
    THEN [ret |-> Panic, painting_order |-> order]
    ELSE IF ~Contains(order[groups[webview_id]], webview_id)
    THEN [ret |-> OkBool(TRUE),
          painting_order |->
              [order EXCEPT ![groups[webview_id]] = Append(@, webview_id)]]
    ELSE [ret |-> OkBool(FALSE), painting_order |-> order]

\* show without the contains test before the push.
show_always_push(views, groups, order, webview_id) ==
    IF webview_id \notin DOMAIN views
    THEN [ret |-> UnknownWebView(webview_id), painting_order |-> order]
    ELSE IF group_painting_order_mut_panics(groups, order, webview_id)
    THEN [ret |-> Panic, painting_order |-> order]
    ELSE [ret |-> OkBool(TRUE),
          painting_order |->
              [order EXCEPT ![groups[webview_id]] = Append(@, webview_id)]]

\* show: the result and the painting order it leaves.
show(views, groups, order, webview_id) ==
    IF webview_id \notin DOMAIN views
    THEN [ret |-> UnknownWebView(webview_id), painting_order |-> order]
    ELSE IF group_painting_order_mut_panics(groups, order, webview_id)
    THEN [ret |-> Panic, painting_order |-> order]
    ELSE IF ~Contains(order[groups[webview_id]], webview_id)
    THEN [ret |-> OkBool(TRUE),
          painting_order |->
              [order EXCEPT ![groups[webview_id]] = Append(@, webview_id)]]
    ELSE [ret |-> OkBool(FALSE), painting_order |-> order]

\* hide: the result and the painting order it leaves.
hide(views, groups, order, webview_id) ==
    IF webview_id \notin DOMAIN views
    THEN [ret |-> UnknownWebView(webview_id), painting_order |-> order]
    ELSE IF group_painting_order_mut_panics(groups, order, webview_id)
    THEN [ret |-> Panic, painting_order |-> order]
    ELSE IF Contains(order[groups[webview_id]], webview_id)
    THEN [ret |-> OkBool(TRUE),
          painting_order |->
              [order EXCEPT ![groups[webview_id]] = Retain(@, webview_id)]]
    ELSE [ret |-> OkBool(FALSE), painting_order |-> order]

\* The ? operator: an Err (or a panic) of the inner call ends the outer one.
Propagates(r) == r.ret.kind \in {"UnknownWebView", "Panic"}

\* raise_to_top doing what show does.
raise_to_top_as_show(views, groups, order, webview_id) ==
    IF webview_id \notin DOMAIN views
    THEN [ret |-> UnknownWebView(webview_id), painting_order |-> order]
    ELSE IF group_painting_order_mut_panics(groups, order, webview_id)
    THEN [ret |-> Panic, painting_order |-> order]
    ELSE IF ~Contains(order[groups[webview_id]], webview_id)
    THEN [ret |-> OkBool(TRUE),
          painting_order |->
              [order EXCEPT ![groups[webview_id]] = Append(@, webview_id)]]
    ELSE [ret |-> OkBool(FALSE), painting_order |-> order]

\* raise_to_top: hide then show unless the webview is already last.
raise_to_top(views, groups, order, webview_id) ==
    IF webview_id \notin DOMAIN views
    THEN [ret |-> UnknownWebView(webview_id), painting_order |-> order]
    ELSE IF group_painting_order_mut_panics(groups, order, webview_id)
    THEN [ret |-> Panic, painting_order |-> order]
    ELSE IF LastIsNot(order[groups[webview_id]], webview_id)
    THEN LET h == hide(views, groups, order, webview_id)
         IN  IF Propagates(h) THEN h
             ELSE LET s == show(views, groups, h.painting_order, webview_id)
                  IN  IF Propagates(s) THEN s
                      ELSE [ret |-> OkBool(TRUE),
                            painting_order |-> s.painting_order]
    ELSE [ret |-> OkBool(FALSE), painting_order |-> order]

\* hide_all clearing the painting order of every group.
hide_all_every_group(order, group) ==
    IF group \notin DOMAIN order
    THEN [ret |-> Panic, painting_order |-> order]
    ELSE IF order[group] # <<>>
    THEN [ret |-> Bool(TRUE), painting_order |-> [g \in DOMAIN order |-> <<>>]]
    ELSE [ret |-> Bool(FALSE), painting_order |-> order]

\* hide_all: unwrap of the group's painting order, then clear.
hide_all(order, group) ==
    IF group \notin DOMAIN order
    THEN [ret |-> Panic, painting_order |-> order]
    ELSE IF order[group] # <<>>
    THEN [ret |-> Bool(TRUE), painting_order |-> [order EXCEPT ![group] = <<>>]]
    ELSE [ret |-> Bool(FALSE), painting_order |-> order]

\* remove without the retain on the group's painting order.
remove_keep_order(views, groups, order, webview_id) ==
    IF group_painting_order_mut_panics(groups, order, webview_id)
    THEN [ret |-> Panic, webviews |-> views, painting_order |-> order]
    ELSE IF webview_id \in DOMAIN views
    THEN [ret |-> OkWebView(views[webview_id]),
          webviews |-> RemoveKey(views, webview_id),
          painting_order |-> order]
    ELSE [ret |-> UnknownWebView(webview_id),
          webviews |-> views,
          painting_order |-> order]

\* remove: retain on the group's painting order, then HashMap::remove.
remove(views, groups, order, webview_id) ==
    IF group_painting_order_mut_panics(groups, order, webview_id)
    THEN [ret |-> Panic, webviews |-> views, painting_order |-> order]
    ELSE LET retained ==
                 [order EXCEPT ![groups[webview_id]] = Retain(@, webview_id)]
         IN  IF webview_id \in DOMAIN views
             THEN [ret |-> OkWebView(views[webview_id]),
                   webviews |-> RemoveKey(views, webview_id),
                   painting_order |-> retained]
             ELSE [ret |-> UnknownWebView(webview_id),
                   webviews |-> views,
                   painting_order |-> retained]

\* The flat_map of painting_order(): each id paired with its webview, ids
\* whose get() is None yield nothing.
RECURSIVE flat_map_get(_, _)
flat_map_get(ids, views) ==
    IF ids = <<>> THEN <<>>
    ELSE LET found == get(views, Head(ids))
         IN  (IF found.kind = "Some" THEN << <<Head(ids), found.webview>> >> ELSE <<>>)
                 \o flat_map_get(Tail(ids), views)

\* painting_order() iterating the Vec from its end (topmost first).
painting_order_items_rev(views, order, group) ==
    IF group \notin DOMAIN order THEN Panic
    ELSE Items(flat_map_get(
             [i \in 1..Len(order[group]) |->
                  order[group][Len(order[group]) + 1 - i]], views))

\* painting_order() with map and unwrap in place of flat_map.
painting_order_items_unwrap(views, order, group) ==
    IF group \notin DOMAIN order THEN Panic
    ELSE IF \E i \in 1..Len(order[group]) : order[group][i] \notin DOMAIN views
    THEN Panic
    ELSE Items(flat_map_get(order[group], views))

\* painting_order(group_id): expect on the group, then the iterator's items.
painting_order_items(views, order, group) ==
    IF group \notin DOMAIN order THEN Panic
    ELSE Items(flat_map_get(order[group], views))

\* add_webview with HashMap::insert instead of entry().or_insert().
add_webview_insert(views, groups, group, webview_id, webview) ==
    [webviews |-> Insert(views, webview_id, webview),
     webview_groups |-> Insert(groups, webview_id, group)]

\* add_webview that forgets the webview_groups entry.
add_webview_no_group(views, groups, group, webview_id, webview) ==
    [webviews |-> OrInsert(views, webview_id, webview),
     webview_groups |-> groups]

\* add_webview: or_insert into webviews and into webview_groups.
add_webview(views, groups, group, webview_id, webview) ==
    [webviews |-> OrInsert(views, webview_id, webview),
     webview_groups |-> OrInsert(groups, webview_id, group)]

\* The id taken as get_or_insert(0) without the += 1.
next_group_id_no_increment(last) == IF last.kind = "Some" THEN last.num ELSE 0

\* *self.last_used_id.get_or_insert(0) += 1
next_group_id(last) == (IF last.kind = "Some" THEN last.num ELSE 0) + 1

\* MyRenderNotifier::new: an empty frame_ready_msg.  (Its sender is the
\* CompositorProxy; what is sent on it is recorded in the variable sender.)
MyRenderNotifier == [frame_ready_msg |-> <<>>]

\* RenderNotifier::clone: a notifier of its own, whose frame_ready_msg
\* starts as a copy of the original's.
notifier_clone(notifier) == [frame_ready_msg |-> notifier.frame_ready_msg]

\* RenderNotifier::new_frame_ready: one NewWebRenderFrameReady on the
\* CompositorProxy; frame_ready_msg is not written.
new_frame_ready(notifier, document_id, render) ==
    [notifier |-> notifier,
     sender |-> <<NewWebRenderFrameReady(document_id, render)>>]

\* MyRenderNotifier::get: frame_ready_msg.take().
notifier_get(notifier) ==
    [ret |-> FrameReadyMsgs(notifier.frame_ready_msg),
     notifier |-> [frame_ready_msg |-> <<>>]]

\* The WebRenderInstance of a group: its document comes from the group's
\* own webrender instance; it keeps the notifier, and the webrender
\* instance was given a clone of it.
WebRenderInstance(group) ==
    [webrender_document |-> group,
     notifier |-> MyRenderNotifier,
     webrender |-> [notifier |-> notifier_clone(MyRenderNotifier)]]

\* document_id: the document of the instance of the webview's group;
\* expect("Could not find") when there is no group entry or no instance.
document_id(groups_of, contexts, webview_id) ==
    IF /\ webview_id \in DOMAIN groups_of
       /\ groups_of[webview_id] \in DOMAIN contexts
    THEN DocumentIdOf(contexts[groups_of[webview_id]].webrender_document)
    ELSE Panic

\* my_iter_mut, consumed to its end, visiting the webviews in the order
\* visit: every webview with the instance of its group;
\* expect("Could not get gid") when one has no group entry or no instance.
my_iter_mut(views, groups_of, contexts, visit) ==
    IF \A k \in DOMAIN visit :
           /\ visit[k] \in DOMAIN groups_of
           /\ groups_of[visit[k]] \in DOMAIN contexts
    THEN WebViewInstances([k \in DOMAIN visit |->
             <<visit[k], views[visit[k]], contexts[groups_of[visit[k]]]>>])
    ELSE Panic

\* groups(): the keys of painting_order, in any order.
groups(order) == Orderings(DOMAIN order)

\* send_transaction_to_group, but always on the instance of the smallest
\* live group.
send_transaction_to_group_first(contexts, gid, transaction) ==
    IF gid \notin DOMAIN contexts
    THEN [ret |-> Panic, sent |-> <<>>]
    ELSE LET first == CHOOSE g \in DOMAIN contexts : \A h \in DOMAIN contexts : g <= h IN
         [ret |-> Unit,
          sent |-> <<Delivery(first, contexts[first].webrender_document, transaction)>>]

\* send_transaction_to_group: unwrap of the group's instance, then one
\* send_transaction on its RenderApi with its own document.
send_transaction_to_group(contexts, gid, transaction) ==
    IF gid \notin DOMAIN contexts
    THEN [ret |-> Panic, sent |-> <<>>]
    ELSE [ret |-> Unit,
          sent |-> <<Delivery(gid, contexts[gid].webrender_document, transaction)>>]

\* send_transaction: unwrap of the webview's group, then
\* send_transaction_to_group.
send_transaction(groups_of, contexts, webview_id, transaction) ==
    IF group_id(groups_of, webview_id).kind = "None"
    THEN [ret |-> Panic, sent |-> <<>>]
    ELSE send_transaction_to_group(contexts, group_id(groups_of, webview_id).num,
                                   transaction)

\* send_transaction_all, visiting the instances in the order visit: each
\* gets the next transaction of the transaction_creator, with its own
\* document.
send_transaction_all(contexts, visit) ==
    [k \in 1..Len(visit) |->
        Delivery(visit[k], contexts[visit[k]].webrender_document,
                 Transaction("creator", k))]

----------------------------------------------------------------------------
\* add_webview_group without the insert into painting_order.
AddWebviewGroupNoOrder ==
    /\ ~Panicked
    /\ next_group_id(last_used_id) <= MaxGroup
    /\ \E created \in BOOLEAN :
        LET new_group_id == next_group_id(last_used_id) IN
        /\ last_used_id' = SomeOf(new_group_id)
        /\ pre' = Snapshot
        /\ sent' = <<>>
        /\ sender' = <<>>
        /\ op' = Call("add_webview_group", 0, 0, NoWebView)
        /\ IF created /\ new_group_id \notin DOMAIN rendering_contexts
           THEN /\ rendering_contexts' =
                       Insert(rendering_contexts, new_group_id,
                              WebRenderInstance(new_group_id))
                /\ ret' = GroupIdOf(new_group_id)
           ELSE /\ ret' = Panic
                /\ UNCHANGED rendering_contexts
        /\ UNCHANGED <<webviews, webview_groups, painting_order>>

\* add_webview_group.  created says whether create_webrender_instance
\* returned Ok; its expect panics otherwise, after the id was taken.
AddWebviewGroup ==
    /\ ~Panicked
    /\ next_group_id(last_used_id) <= MaxGroup
    /\ \E created \in BOOLEAN :
        LET new_group_id == next_group_id(last_used_id) IN
        /\ last_used_id' = SomeOf(new_group_id)
        /\ pre' = Snapshot
        /\ sent' = <<>>
        /\ sender' = <<>>
        /\ op' = Call("add_webview_group", 0, 0, NoWebView)
        /\ IF created /\ new_group_id \notin DOMAIN rendering_contexts
           THEN /\ rendering_contexts' =
                       Insert(rendering_contexts, new_group_id,
                              WebRenderInstance(new_group_id))
                /\ painting_order' = Insert(painting_order, new_group_id, <<>>)
                /\ ret' = GroupIdOf(new_group_id)
           ELSE /\ ret' = Panic
                /\ UNCHANGED <<rendering_contexts, painting_order>>
        /\ UNCHANGED <<webviews, webview_groups>>

AddWebview ==
    /\ ~Panicked
    /\ \E group \in GroupIds, webview_id \in WebViewIds, webview \in WebViews :
        LET r == add_webview(webviews, webview_groups, group, webview_id, webview) IN
        /\ webviews' = r.webviews
        /\ webview_groups' = r.webview_groups
        /\ pre' = Snapshot
        /\ sent' = <<>>
        /\ sender' = <<>>
        /\ op' = Call("add_webview", group, webview_id, webview)
        /\ ret' = Unit
        /\ UNCHANGED <<rendering_contexts, painting_order, last_used_id>>

Remove ==
    /\ ~Panicked
    /\ \E webview_id \in WebViewIds :
        LET r == remove(webviews, webview_groups, painting_order, webview_id) IN
        /\ webviews' = r.webviews
        /\ painting_order' = r.painting_order
        /\ pre' = Snapshot
        /\ sent' = <<>>
        /\ sender' = <<>>
        /\ op' = Call("remove", 0, webview_id, NoWebView)
        /\ ret' = r.ret
        /\ UNCHANGED <<rendering_contexts, webview_groups, last_used_id>>

Get ==
    /\ ~Panicked
    /\ \E webview_id \in WebViewIds :
        /\ pre' = Snapshot
        /\ sent' = <<>>
        /\ sender' = <<>>
        /\ op' = Call("get", 0, webview_id, NoWebView)
        /\ ret' = get(webviews, webview_id)
        /\ UNCHANGED fields

GetMut ==
    /\ ~Panicked
    /\ \E webview_id \in WebViewIds :
        /\ pre' = Snapshot
        /\ sent' = <<>>
        /\ sender' = <<>>
        /\ op' = Call("get_mut", 0, webview_id, NoWebView)
        /\ ret' = get(webviews, webview_id)
        /\ UNCHANGED fields

GroupId ==
    /\ ~Panicked
    /\ \E webview_id \in WebViewIds :
        /\ pre' = Snapshot
        /\ sent' = <<>>
        /\ sender' = <<>>
        /\ op' = Call("group_id", 0, webview_id, NoWebView)
        /\ ret' = group_id(webview_groups, webview_id)
        /\ UNCHANGED fields

Show ==
    /\ ~Panicked
    /\ \E webview_id \in WebViewIds :
        LET r == show(webviews, webview_groups, painting_order, webview_id) IN
        /\ painting_order' = r.painting_order
        /\ pre' = Snapshot
        /\ sent' = <<>>
        /\ sender' = <<>>
        /\ op' = Call("show", 0, webview_id, NoWebView)
        /\ ret' = r.ret
        /\ UNCHANGED <<webviews, rendering_contexts, webview_groups, last_used_id>>

\* hide that also takes the webview out of webviews.
HideRemoving ==
    /\ ~Panicked
    /\ \E webview_id \in WebViewIds :
        LET r == hide(webviews, webview_groups, painting_order, webview_id) IN
        /\ painting_order' = r.painting_order
        /\ webviews' = IF r.ret = OkBool(TRUE)
                       THEN RemoveKey(webviews, webview_id) ELSE webviews
        /\ pre' = Snapshot
        /\ sent' = <<>>
        /\ sender' = <<>>
        /\ op' = Call("hide", 0, webview_id, NoWebView)
        /\ ret' = r.ret
        /\ UNCHANGED <<rendering_contexts, webview_groups, last_used_id>>

Hide ==
    /\ ~Panicked
    /\ \E webview_id \in WebViewIds :
        LET r == hide(webviews, webview_groups, painting_order, webview_id) IN
        /\ painting_order' = r.painting_order
        /\ pre' = Snapshot
        /\ sent' = <<>>
        /\ sender' = <<>>
        /\ op' = Call("hide", 0, webview_id, NoWebView)
        /\ ret' = r.ret
        /\ UNCHANGED <<webviews, rendering_contexts, webview_groups, last_used_id>>

RaiseToTop ==
    /\ ~Panicked
    /\ \E webview_id \in WebViewIds :
        LET r == raise_to_top(webviews, webview_groups, painting_order, webview_id) IN
        /\ painting_order' = r.painting_order
        /\ pre' = Snapshot
        /\ sent' = <<>>
        /\ sender' = <<>>
        /\ op' = Call("raise_to_top", 0, webview_id, NoWebView)
        /\ ret' = r.ret
        /\ UNCHANGED <<webviews, rendering_contexts, webview_groups, last_used_id>>

HideAll ==
    /\ ~Panicked
    /\ \E group \in GroupIds :
        LET r == hide_all(painting_order, group) IN
        /\ painting_order' = r.painting_order
        /\ pre' = Snapshot
        /\ sent' = <<>>
        /\ sender' = <<>>
        /\ op' = Call("hide_all", group, 0, NoWebView)
        /\ ret' = r.ret
        /\ UNCHANGED <<webviews, rendering_contexts, webview_groups, last_used_id>>

PaintingOrder ==
    /\ ~Panicked
    /\ \E group \in GroupIds :
        /\ pre' = Snapshot
        /\ sent' = <<>>
        /\ sender' = <<>>
        /\ op' = Call("painting_order", group, 0, NoWebView)
        /\ ret' = painting_order_items(webviews, painting_order, group)
        /\ UNCHANGED fields

Groups ==
    /\ ~Panicked
    /\ \E listed \in groups(painting_order) :
        /\ pre' = Snapshot
        /\ sent' = <<>>
        /\ sender' = <<>>
        /\ op' = Call("groups", 0, 0, NoWebView)
        /\ ret' = GroupIdsOf(listed)
        /\ UNCHANGED fields

SendTransaction ==
    /\ ~Panicked
    /\ \E webview_id \in WebViewIds, transaction \in Transactions :
        LET r == send_transaction(webview_groups, rendering_contexts,
                                  webview_id, transaction) IN
        /\ pre' = Snapshot
        /\ sent' = r.sent
        /\ sender' = <<>>
        /\ op' = TransactionCall("send_transaction", 0, webview_id, transaction)
        /\ ret' = r.ret
        /\ UNCHANGED fields

SendTransactionToGroup ==
    /\ ~Panicked
    /\ \E gid \in GroupIds, transaction \in Transactions :
        LET r == send_transaction_to_group(rendering_contexts, gid, transaction) IN
        /\ pre' = Snapshot
        /\ sent' = r.sent
        /\ sender' = <<>>
        /\ op' = TransactionCall("send_transaction_to_group", gid, 0, transaction)
        /\ ret' = r.ret
        /\ UNCHANGED fields

SendTransactionAll ==
    /\ ~Panicked
    /\ \E visit \in Orderings(DOMAIN rendering_contexts) :
        /\ pre' = Snapshot
        /\ sent' = send_transaction_all(rendering_contexts, visit)
        /\ sender' = <<>>
        /\ op' = Call("send_transaction_all", 0, 0, NoWebView)
        /\ ret' = Unit
        /\ UNCHANGED fields

DocumentId ==
    /\ ~Panicked
    /\ \E webview_id \in WebViewIds :
        /\ pre' = Snapshot
        /\ sent' = <<>>
        /\ sender' = <<>>
        /\ op' = Call("document_id", 0, webview_id, NoWebView)
        /\ ret' = document_id(webview_groups, rendering_contexts, webview_id)
        /\ UNCHANGED fields

MyIterMut ==
    /\ ~Panicked
    /\ \E visit \in Orderings(DOMAIN webviews) :
        /\ pre' = Snapshot
        /\ sent' = <<>>
        /\ sender' = <<>>
        /\ op' = Call("my_iter_mut", 0, 0, NoWebView)
        /\ ret' = my_iter_mut(webviews, webview_groups, rendering_contexts, visit)
        /\ UNCHANGED fields

\* webrender reports a frame of the group's document on the notifier it
\* was given.
NewFrameReady ==
    /\ ~Panicked
    /\ \E group \in DOMAIN rendering_contexts, render \in BOOLEAN :
        LET r == new_frame_ready(rendering_contexts[group].webrender.notifier,
                                 rendering_contexts[group].webrender_document,
                                 render) IN
        /\ pre' = Snapshot
        /\ sent' = <<>>
        /\ sender' = r.sender
        /\ op' = NotifierCall("MyRenderNotifier::new_frame_ready", group, render)
        /\ ret' = Unit
        /\ rendering_contexts' =
               [rendering_contexts EXCEPT ![group].webrender.notifier = r.notifier]
        /\ UNCHANGED <<webviews, webview_groups, painting_order, last_used_id>>

\* get on the notifier the group's WebRenderInstance keeps.
NotifierGet ==
    /\ ~Panicked
    /\ \E group \in DOMAIN rendering_contexts :
        LET r == notifier_get(rendering_contexts[group].notifier) IN
        /\ pre' = Snapshot
        /\ sent' = <<>>
        /\ sender' = <<>>
        /\ op' = NotifierCall("MyRenderNotifier::get", group, FALSE)
        /\ ret' = r.ret
        /\ rendering_contexts' =
               [rendering_contexts EXCEPT ![group].notifier = r.notifier]
        /\ UNCHANGED <<webviews, webview_groups, painting_order, last_used_id>>

\* deinit: panic!("DEINIT") is its first statement; nothing after it runs.
Deinit ==
    /\ ~Panicked
    /\ pre' = Snapshot
    /\ sent' = <<>>
    /\ sender' = <<>>
    /\ op' = Call("deinit", 0, 0, NoWebView)
    /\ ret' = Panic
    /\ UNCHANGED fields

Next ==
    \/ AddWebviewGroup
    \/ AddWebview
    \/ Remove
    \/ Get
    \/ GetMut
    \/ GroupId
    \/ Show
    \/ Hide
    \/ RaiseToTop
    \/ HideAll
    \/ PaintingOrder
    \/ Groups
    \/ SendTransaction
    \/ SendTransactionToGroup
    \/ SendTransactionAll
    \/ DocumentId
    \/ MyIterMut
    \/ NewFrameReady
    \/ NotifierGet
    \/ Deinit

Spec == Init /\ [][Next]_vars

----------------------------------------------------------------------------
\* painting_order() as a function of its inputs: every webviews map and
\* every duplicate-free painting order of one live group, also those that
\* name ids missing from webviews.
PartialMaps(keys, values) == UNION {[d -> values] : d \in SUBSET keys}

DuplicateFree(ids) ==
    {s \in UNION {[1..n -> ids] : n \in 0..Cardinality(ids)} :
        \A i, j \in DOMAIN s : i # j => s[i] # s[j]}

InitItems ==
    /\ webviews \in PartialMaps(WebViewIds, WebViews)
    /\ rendering_contexts = Insert(EmptyMap, 1, WebRenderInstance(1))
    /\ webview_groups = [v \in DOMAIN webviews |-> 1]
    /\ painting_order \in [{1} -> DuplicateFree(WebViewIds)]
    /\ last_used_id = SomeOf(1)
    /\ op = Call("new", 0, 0, NoWebView)
    /\ ret = Unit
    /\ pre = Snapshot
    /\ sent = <<>>
    /\ sender = <<>>

SpecItems == InitItems /\ [][PaintingOrder]_vars

----------------------------------------------------------------------------
\* Readings of the recorded call.
Unregistered(webview_id) == webview_id \notin DOMAIN pre.webviews

Registered(webview_id) == webview_id \in DOMAIN pre.webviews

\* The call left the registry, the group membership and every painting
\* order as they were.
Untouched ==
    /\ webviews = pre.webviews
    /\ webview_groups = pre.webview_groups
    /\ painting_order = pre.painting_order

\* C1: get and get_mut of a webview id that is not in webviews return None;
\* show, hide and raise_to_top of it return Err(UnknownWebView(id)); none of
\* them changes webviews, webview_groups or any painting order.
C1_UnknownWebViewRejected ==
    /\ (op.name \in {"get", "get_mut"} /\ Unregistered(op.webview_id))
           => (ret = NoneOf /\ Untouched)
    /\ (op.name \in {"show", "hide", "raise_to_top"} /\ Unregistered(op.webview_id))
           => (ret = UnknownWebView(op.webview_id) /\ Untouched)

\* C1 witness: show was refused for a removed webview that still has a group
\* whose painting order holds another webview.
C1_Witness ==
    /\ op.name = "show"
    /\ Unregistered(op.webview_id)
    /\ ret = UnknownWebView(op.webview_id)
    /\ op.webview_id \in DOMAIN webview_groups
    /\ webview_groups[op.webview_id] \in DOMAIN painting_order
    /\ painting_order[webview_groups[op.webview_id]] # <<>>

\* C2: remove of a webview id that is not in webviews (also one that was
\* never added to any group) returns Err(UnknownWebView(id)) as a value and
\* leaves webviews, webview_groups and every painting order unchanged.
C2_RemoveUnknownIsError ==
    (op.name = "remove" /\ Unregistered(op.webview_id))
        => (ret = UnknownWebView(op.webview_id) /\ Untouched)

\* The webview's group (its session) before the call, and whether that
\* group had a painting order then.
GroupOf(webview_id) == pre.webview_groups[webview_id]

HasPaintingOrder(webview_id) ==
    /\ webview_id \in DOMAIN pre.webview_groups
    /\ GroupOf(webview_id) \in DOMAIN pre.painting_order

Occurs(s, x) == x \in {s[i] : i \in DOMAIN s}

\* new is old with webview_id taken out and everything else in place.
Deleted(old, new, webview_id) ==
    /\ ~Occurs(new, webview_id)
    /\ IF Occurs(old, webview_id)
       THEN \E i \in DOMAIN old :
               /\ old[i] = webview_id
               /\ new = SubSeq(old, 1, i - 1) \o SubSeq(old, i + 1, Len(old))
       ELSE new = old

\* Every painting order but that of group is as it was, and no painting
\* order was added or dropped.
OtherOrdersKept(group) ==
    /\ DOMAIN painting_order = DOMAIN pre.painting_order
    /\ \A g \in DOMAIN painting_order \ {group} :
           painting_order[g] = pre.painting_order[g]

\* What C3 says of a remove of a registered webview.
RemoveReturnsWebView ==
    /\ ret = OkWebView(pre.webviews[op.webview_id])
    /\ get(webviews, op.webview_id) = NoneOf
    /\ DOMAIN painting_order = DOMAIN pre.painting_order
    /\ \A g \in DOMAIN painting_order :
           Deleted(pre.painting_order[g], painting_order[g], op.webview_id)

\* C3: remove of a registered webview returns its payload; afterwards get
\* is None and the webview is in no painting order, and all other webviews
\* keep their relative order in every painting order.
C3_RemoveRegistered ==
    (op.name = "remove" /\ Registered(op.webview_id)) => RemoveReturnsWebView

\* C3 for the webviews whose group has a painting order (the others are the
\* case of C30).
C3_RemoveRegisteredOfLiveGroup ==
    (op.name = "remove" /\ Registered(op.webview_id)
        /\ HasPaintingOrder(op.webview_id)) => RemoveReturnsWebView

\* What C4 says of a show of a registered webview.
ShowAppends ==
    LET v == op.webview_id
        g == GroupOf(v)
    IN  IF HasPaintingOrder(v) /\ Occurs(pre.painting_order[g], v)
        THEN ret = OkBool(FALSE) /\ Untouched
        ELSE /\ ret = OkBool(TRUE)
             /\ HasPaintingOrder(v)
             /\ painting_order[g] = pre.painting_order[g] \o <<v>>
             /\ OtherOrdersKept(g)
             /\ webviews = pre.webviews
             /\ webview_groups = pre.webview_groups

\* C4: show of a registered webview that is in its group's painting order
\* changes nothing and returns false; otherwise the webview is appended as
\* the last element, the earlier elements stay in place, and it returns
\* true (so a second show right after returns false).
C4_Show ==
    (op.name = "show" /\ Registered(op.webview_id)) => ShowAppends

\* C4 for the webviews whose group has a painting order.
C4_ShowOfLiveGroup ==
    (op.name = "show" /\ Registered(op.webview_id)
        /\ HasPaintingOrder(op.webview_id)) => ShowAppends

\* What C5 says of a hide of a registered webview.
HideDeletes ==
    LET v == op.webview_id
        g == GroupOf(v)
    IN  IF HasPaintingOrder(v) /\ Occurs(pre.painting_order[g], v)
        THEN /\ ret = OkBool(TRUE)
             /\ Deleted(pre.painting_order[g], painting_order[g], v)
             /\ Len(painting_order[g]) = Len(pre.painting_order[g]) - 1
             /\ OtherOrdersKept(g)
             /\ webviews = pre.webviews
             /\ webview_groups = pre.webview_groups
        ELSE ret = OkBool(FALSE) /\ Untouched

\* C5: hide of a registered webview that is not in its group's painting
\* order changes nothing and returns false; otherwise exactly that webview
\* is taken out, the others keep their relative order, and it returns true
\* (so a second hide right after returns false).
C5_Hide ==
    (op.name = "hide" /\ Registered(op.webview_id)) => HideDeletes

\* C5 for the webviews whose group has a painting order.
C5_HideOfLiveGroup ==
    (op.name = "hide" /\ Registered(op.webview_id)
        /\ HasPaintingOrder(op.webview_id)) => HideDeletes

\* What C6 says of a raise_to_top of a registered webview.
RaiseMovesLast ==
    LET v == op.webview_id
        g == GroupOf(v)
    IN  IF /\ HasPaintingOrder(v)
           /\ pre.painting_order[g] # <<>>
           /\ pre.painting_order[g][Len(pre.painting_order[g])] = v
        THEN ret = OkBool(FALSE) /\ Untouched
        ELSE /\ ret = OkBool(TRUE)
             /\ HasPaintingOrder(v)
             /\ painting_order[g] # <<>>
             /\ painting_order[g][Len(painting_order[g])] = v
             /\ Deleted(pre.painting_order[g],
                        SubSeq(painting_order[g], 1, Len(painting_order[g]) - 1), v)
             /\ OtherOrdersKept(g)
             /\ webviews = pre.webviews
             /\ webview_groups = pre.webview_groups

\* C6: raise_to_top of a registered webview that is already the last element
\* of its group's painting order returns false and changes nothing;
\* otherwise (hidden, or visible but not last) it returns true, the webview
\* becomes the last element and the other visible webviews keep their
\* relative order.
C6_RaiseToTop ==
    (op.name = "raise_to_top" /\ Registered(op.webview_id)) => RaiseMovesLast

\* C6 for the webviews whose group has a painting order.
C6_RaiseToTopOfLiveGroup ==
    (op.name = "raise_to_top" /\ Registered(op.webview_id)
        /\ HasPaintingOrder(op.webview_id)) => RaiseMovesLast

\* A group is live when it has a WebRenderInstance.
Live(group) == group \in DOMAIN pre.rendering_contexts

\* C7: hide_all of a live group empties that group's painting order and
\* returns true exactly when it was non-empty before; the other groups'
\* painting orders, webviews and webview_groups are unchanged.
C7_HideAllOfLiveGroup ==
    (op.name = "hide_all" /\ Live(op.group_id)) =>
        /\ op.group_id \in DOMAIN pre.painting_order
        /\ ret = Bool(pre.painting_order[op.group_id] # <<>>)
        /\ painting_order[op.group_id] = <<>>
        /\ OtherOrdersKept(op.group_id)
        /\ webviews = pre.webviews
        /\ webview_groups = pre.webview_groups

\* C7 witness: hide_all emptied a painting order of two webviews while the
\* other group's painting order, which is not empty, stayed.
C7_Witness ==
    /\ op.name = "hide_all"
    /\ Live(op.group_id)
    /\ ret = Bool(TRUE)
    /\ Len(pre.painting_order[op.group_id]) = 2
    /\ painting_order[op.group_id] = <<>>
    /\ \E g \in DOMAIN painting_order : painting_order[g] # <<>>

\* C8: hide_all of a group id that has no painting order fails with an
\* error value (it neither aborts nor returns a plain bool) and leaves all
\* fields unchanged.
C8_HideAllUnknownGroupIsError ==
    (op.name = "hide_all" /\ op.group_id \notin DOMAIN pre.painting_order) =>
        /\ ~Panicked
        /\ ret.kind # "Bool"
        /\ Snapshot = pre

\* C9: painting_order(group) of a live group yields, back to front, exactly
\* the ids of the group's current painting order that are in webviews, each
\* with its current webview; ids missing from webviews are left out; the
\* call does not panic and changes nothing.
C9_PaintingOrderItems ==
    (op.name = "painting_order" /\ Live(op.group_id)) =>
        LET registered ==
                SelectSeq(painting_order[op.group_id],
                          LAMBDA id : id \in DOMAIN webviews)
        IN  /\ ret.kind = "Items"
            /\ Len(ret.seq) = Len(registered)
            /\ \A i \in 1..Len(registered) :
                   ret.seq[i] = <<registered[i], webviews[registered[i]]>>
            /\ Snapshot = pre

\* C9 witness: after shows of 1, 2, 3, hide(2) and raise_to_top(1) leave the
\* painting order <<3, 1>>, the call yields 3 then 1 with their (different)
\* webviews while 2 stays registered.
C9_Witness ==
    /\ op.name = "painting_order"
    /\ Live(op.group_id)
    /\ painting_order[op.group_id] = <<3, 1>>
    /\ 2 \in DOMAIN webviews
    /\ webviews[3] # webviews[1]
    /\ ret = Items(<< <<3, webviews[3]>>, <<1, webviews[1]>> >>)

\* C9 on arbitrary inputs: an id of the painting order that is missing from
\* webviews was left out of the items and the call returned.
C9_OmittedWitness ==
    /\ op.name = "painting_order"
    /\ op.group_id = 1
    /\ painting_order[1] = <<2, 3, 1>>
    /\ DOMAIN webviews = {1, 2}
    /\ ret = Items(<< <<2, webviews[2]>>, <<1, webviews[1]>> >>)

\* C10: add_webview of a webview id that is already registered is a no-op:
\* the stored webview and the group stay the first ones and no painting
\* order changes, whatever group id and webview the call supplies.
C10_AddRegisteredIsNoOp ==
    (op.name = "add_webview" /\ Registered(op.webview_id)) =>
        /\ webviews[op.webview_id] = pre.webviews[op.webview_id]
        /\ webview_groups[op.webview_id] = pre.webview_groups[op.webview_id]
        /\ Snapshot = pre

\* C10 witness: a visible webview was added again with another webview and
\* another group id.
C10_Witness ==
    /\ op.name = "add_webview"
    /\ Registered(op.webview_id)
    /\ op.webview # webviews[op.webview_id]
    /\ op.group_id # webview_groups[op.webview_id]
    /\ webview_groups[op.webview_id] \in DOMAIN painting_order
    /\ Occurs(painting_order[webview_groups[op.webview_id]], op.webview_id)

\* C11: add_webview of an unregistered webview id with webview w makes
\* get(id) return w and leaves the webview hidden: it is in webviews and in
\* webview_groups but in no painting order; no other webview's payload,
\* group or painting position changes.
C11_AddUnregistered ==
    (op.name = "add_webview" /\ Unregistered(op.webview_id)) =>
        /\ get(webviews, op.webview_id) = SomeWebView(op.webview)
        /\ op.webview_id \in DOMAIN webview_groups
        /\ \A g \in DOMAIN painting_order :
               ~Occurs(painting_order[g], op.webview_id)
        /\ DOMAIN webviews = DOMAIN pre.webviews \cup {op.webview_id}
        /\ \A v \in DOMAIN pre.webviews : webviews[v] = pre.webviews[v]
        /\ DOMAIN webview_groups = DOMAIN pre.webview_groups \cup {op.webview_id}
        /\ \A v \in DOMAIN pre.webview_groups :
               webview_groups[v] = pre.webview_groups[v]
        /\ painting_order = pre.painting_order

\* C11 witness: a webview was added next to a visible one of the same live
\* group and is itself in no painting order.
C11_Witness ==
    /\ op.name = "add_webview"
    /\ Unregistered(op.webview_id)
    /\ op.webview_id \notin DOMAIN pre.webview_groups
    /\ webviews[op.webview_id] = op.webview
    /\ webview_groups[op.webview_id] = op.group_id
    /\ op.group_id \in DOMAIN painting_order
    /\ painting_order[op.group_id] # <<>>

\* C12: a webview does not move between groups: over every call that
\* leaves it registered (add_webview, show, hide, raise_to_top, hide_all,
\* add_webview_group and the rest) group_id returns the same Some(group)
\* after the call as before.
C12_NoMigration ==
    \A v \in DOMAIN pre.webviews \cap DOMAIN webviews :
        /\ group_id(pre.webview_groups, v).kind = "Some"
        /\ group_id(webview_groups, v) = group_id(pre.webview_groups, v)

\* C12 witness: a registered webview of group 1, visible there, was added
\* again with group 2 as the group id while group 2 is live.
C12_Witness ==
    /\ op.name = "add_webview"
    /\ Registered(op.webview_id)
    /\ op.group_id = 2
    /\ 2 \in DOMAIN rendering_contexts
    /\ group_id(webview_groups, op.webview_id) = SomeOf(1)
    /\ Occurs(painting_order[1], op.webview_id)

\* C13: group ids are handed out in increasing order: the first
\* add_webview_group returns 1 and every later one returns an id greater
\* than every id returned before.  (No group is ever dropped, so the ids
\* returned before are the keys of rendering_contexts.)
C13_MonotonicGroupIds ==
    (op.name = "add_webview_group" /\ ret.kind = "GroupId") =>
        /\ \A g \in DOMAIN pre.rendering_contexts : ret.num > g
        /\ DOMAIN pre.rendering_contexts = {} => ret.num = 1
        /\ ret.num >= 1

\* C13 witness: the second add_webview_group returned 2 after 1.
C13_Witness ==
    /\ op.name = "add_webview_group"
    /\ ret = GroupIdOf(2)
    /\ DOMAIN pre.rendering_contexts = {1}

\* The group g a successful add_webview_group returned is new and live, has
\* an instance whose document no other group has, is listed by groups(),
\* and has an empty painting order; the groups, painting orders and
\* webviews there were before are as they were.
FreshGroup(g) ==
    /\ g \notin DOMAIN pre.rendering_contexts
    /\ g \in DOMAIN rendering_contexts
    /\ \A h \in DOMAIN pre.rendering_contexts :
           rendering_contexts[g].webrender_document
               # pre.rendering_contexts[h].webrender_document
    /\ \A listed \in groups(painting_order) : Occurs(listed, g)
    /\ g \in DOMAIN painting_order
    /\ painting_order[g] = <<>>
    /\ DOMAIN rendering_contexts = DOMAIN pre.rendering_contexts \cup {g}
    /\ \A h \in DOMAIN pre.rendering_contexts :
           rendering_contexts[h] = pre.rendering_contexts[h]
    /\ DOMAIN painting_order = DOMAIN pre.painting_order \cup {g}
    /\ \A h \in DOMAIN pre.painting_order :
           painting_order[h] = pre.painting_order[h]
    /\ webviews = pre.webviews
    /\ webview_groups = pre.webview_groups

\* C14: a successful add_webview_group returns a fresh group id g: g is
\* live with its own instance and document, groups() lists it, its painting
\* order exists and is empty, no webview has g as its group, and the other
\* groups, their painting orders and all webviews are unchanged.
C14_AddWebviewGroup ==
    (op.name = "add_webview_group" /\ ret.kind = "GroupId") =>
        /\ FreshGroup(ret.num)
        /\ \A v \in DOMAIN webview_groups : webview_groups[v] # ret.num

\* The same without the clause on group membership: that one fails only
\* for webviews add_webview stored under the id before the group existed.
C14_AddWebviewGroupExceptMembership ==
    (op.name = "add_webview_group" /\ ret.kind = "GroupId") => FreshGroup(ret.num)

\* C15: when no webrender instance can be created, add_webview_group
\* returns an error value and has no effect: last_used_id is what it was
\* and neither rendering_contexts nor painting_order has a new entry.
C15_AddWebviewGroupFailure ==
    (op.name = "add_webview_group" /\ ret.kind # "GroupId") =>
        /\ ~Panicked
        /\ last_used_id = pre.last_used_id
        /\ DOMAIN rendering_contexts = DOMAIN pre.rendering_contexts
        /\ DOMAIN painting_order = DOMAIN pre.painting_order

\* C16: deinit returns, and after it no group has an instance or a painting
\* order and no webview has a group.
C16_DeinitCompletes ==
    op.name = "deinit" =>
        /\ ~Panicked
        /\ DOMAIN rendering_contexts = {}
        /\ DOMAIN painting_order = {}
        /\ DOMAIN webview_groups = {}

\* C17: deinit deletes no webview: get still returns every webview that
\* was registered before it, and none of them has a group any more.
C17_DeinitKeepsWebviews ==
    op.name = "deinit" =>
        /\ ~Panicked
        /\ \A v \in DOMAIN pre.webviews :
            /\ get(webviews, v) = SomeWebView(pre.webviews[v])
            /\ group_id(webview_groups, v) = NoneOf

\* The transaction call names a group that has no instance, or a webview
\* that has no group.
NoLiveGroup ==
    \/ /\ op.name = "send_transaction_to_group"
       /\ op.group_id \notin DOMAIN pre.rendering_contexts
    \/ /\ op.name = "send_transaction"
       /\ group_id(pre.webview_groups, op.webview_id).kind = "None"

\* C18: send_transaction_to_group of a group without an instance, and
\* send_transaction of a webview without a group, return an error value,
\* send nothing and do not abort.
C18_SendToUnknownGroupIsError ==
    NoLiveGroup => (~Panicked /\ ret # Unit /\ sent = <<>>)

\* The transactions the transaction_creator made when called n times.
Created(n) == {Transaction("creator", k) : k \in 1..n}

\* C19: send_transaction_to_group of a live group, and send_transaction of
\* a webview of a live group, make exactly one send_transaction call: on
\* that group's RenderApi, with that group's document and the caller's
\* transaction.  send_transaction_all calls the transaction_creator once
\* per live group and makes exactly one send_transaction call per live
\* group, on its RenderApi and with its document, and no other call.
C19_SendTransaction ==
    /\ (op.name = "send_transaction_to_group" /\ Live(op.group_id)) =>
           /\ ret = Unit
           /\ sent = <<Delivery(op.group_id,
                                pre.rendering_contexts[op.group_id].webrender_document,
                                op.transaction)>>
    /\ (/\ op.name = "send_transaction"
        /\ op.webview_id \in DOMAIN pre.webview_groups
        /\ Live(pre.webview_groups[op.webview_id])) =>
           /\ ret = Unit
           /\ sent = <<Delivery(pre.webview_groups[op.webview_id],
                                pre.rendering_contexts[
                                    pre.webview_groups[op.webview_id]].webrender_document,
                                op.transaction)>>
    /\ op.name = "send_transaction_all" =>
           /\ Len(sent) = Cardinality(DOMAIN pre.rendering_contexts)
           /\ {sent[k].transaction : k \in DOMAIN sent} = Created(Len(sent))
           /\ \A g \in DOMAIN pre.rendering_contexts :
                  Cardinality({k \in DOMAIN sent : sent[k].group = g}) = 1
           /\ \A k \in DOMAIN sent :
                  /\ Live(sent[k].group)
                  /\ sent[k].document
                         = pre.rendering_contexts[sent[k].group].webrender_document
    /\ fields = <<pre.webviews, pre.rendering_contexts, pre.webview_groups,
                  pre.painting_order, pre.last_used_id>>
           \/ op.name \notin {"send_transaction", "send_transaction_to_group",
                              "send_transaction_all"}

C19_Witness ==
    /\ op.name = "send_transaction_to_group"
    /\ DOMAIN pre.rendering_contexts = {1, 2}
    /\ sent = <<Delivery(2, 2, Transaction("caller", 2))>>

C19_AllWitness ==
    /\ op.name = "send_transaction_all"
    /\ Len(sent) = 2
    /\ sent[1].group = 2
    /\ sent[2].group = 1

\* C20: every webview that has a group is registered, and its group is
\* live.
C20_GroupMembership ==
    \A v \in DOMAIN webview_groups :
        /\ v \in DOMAIN webviews
        /\ webview_groups[v] \in DOMAIN rendering_contexts

\* C21: every webview id in a group's painting order is in webviews and
\* has that group in webview_groups; so a webview of one group is never in
\* the painting order of another.
C21_PaintingOrderOfGroup ==
    \A g \in DOMAIN painting_order :
        \A i \in DOMAIN painting_order[g] :
            /\ painting_order[g][i] \in DOMAIN webviews
            /\ group_id(webview_groups, painting_order[g][i]) = SomeOf(g)

C21_Witness ==
    /\ op.name = "remove"
    /\ ret.kind = "OkWebView"
    /\ Occurs(pre.painting_order[1], op.webview_id)
    /\ painting_order[1] # <<>>
    /\ 2 \in DOMAIN painting_order
    /\ painting_order[2] # <<>>

\* C22: no painting order holds a webview id twice, and no webview id is
\* in the painting orders of two groups.
C22_NoDuplicates ==
    /\ \A g \in DOMAIN painting_order :
           \A i, j \in DOMAIN painting_order[g] :
               i # j => painting_order[g][i] # painting_order[g][j]
    /\ \A g, h \in DOMAIN painting_order :
           g # h => \A i \in DOMAIN painting_order[g] :
                        ~Occurs(painting_order[h], painting_order[g][i])

C22_Witness ==
    /\ op.name = "raise_to_top"
    /\ ret = OkBool(TRUE)
    /\ Occurs(pre.painting_order[1], op.webview_id)
    /\ Len(painting_order[1]) = 2
    /\ 2 \in DOMAIN painting_order
    /\ painting_order[2] # <<>>

\* C23: a frame webrender reports through the notifier it was given is
\* buffered in frame_ready_msg of the group's notifier until get takes it:
\* after new_frame_ready the (DocumentId, bool) pair is in the buffer, and
\* get returns the buffer as it was and leaves it empty.
C23_FrameReadyBuffered ==
    /\ op.name = "MyRenderNotifier::new_frame_ready" =>
           Occurs(rendering_contexts[op.group_id].notifier.frame_ready_msg,
                  <<pre.rendering_contexts[op.group_id].webrender_document,
                    op.render>>)
    /\ op.name = "MyRenderNotifier::get" =>
           /\ ret = FrameReadyMsgs(
                  pre.rendering_contexts[op.group_id].notifier.frame_ready_msg)
           /\ rendering_contexts[op.group_id].notifier.frame_ready_msg = <<>>

\* The call is name(webview_id) in a state where the webviews 1, 2 and 3
\* are registered in the live group g, whose painting order is before.
Step(g, name, webview_id, before) ==
    /\ op.name = name
    /\ op.webview_id = webview_id
    /\ g \in DOMAIN pre.rendering_contexts
    /\ g \in DOMAIN pre.painting_order
    /\ \A v \in {1, 2, 3} :
           v \in DOMAIN pre.webviews /\ group_id(pre.webview_groups, v) = SomeOf(g)
    /\ pre.painting_order[g] = before

\* C24: with the webviews 1, 2, 3 added to a group, each step of the
\* scenario show(2), show(2), raise_to_top(1), show(3), raise_to_top(1),
\* hide(3), remove(1) returns and leaves what the scenario says.
C24_Scenario ==
    \A g \in GroupIds :
        /\ Step(g, "show", 2, <<>>) =>
               (ret = OkBool(TRUE) /\ painting_order[g] = <<2>>)
        /\ Step(g, "show", 2, <<2>>) =>
               (ret = OkBool(FALSE) /\ painting_order[g] = <<2>>)
        /\ Step(g, "raise_to_top", 1, <<2>>) =>
               (ret = OkBool(TRUE) /\ painting_order[g] = <<2, 1>>)
        /\ Step(g, "show", 3, <<2, 1>>) =>
               (ret = OkBool(TRUE) /\ painting_order[g] = <<2, 1, 3>>)
        /\ Step(g, "raise_to_top", 1, <<2, 1, 3>>) =>
               (ret = OkBool(TRUE) /\ painting_order[g] = <<2, 3, 1>>)
        /\ Step(g, "hide", 3, <<2, 3, 1>>) =>
               (ret = OkBool(TRUE) /\ painting_order[g] = <<2, 1>>)
        /\ Step(g, "remove", 1, <<2, 1>>) =>
               (ret.kind = "OkWebView" /\ painting_order[g] = <<2>>)

C24_Witness ==
    /\ Step(1, "remove", 1, <<2, 1>>)
    /\ painting_order[1] = <<2>>
    /\ webview_groups[3] = 1
    /\ webview_groups[1] = 1

C24_RaiseWitness ==
    /\ Step(1, "raise_to_top", 1, <<2, 1, 3>>)
    /\ painting_order[1] = <<2, 3, 1>>

\* C25: add_webview of a webview that was removed from another group puts
\* it into the live group it is now added to.
C25_ReAddMovesGroup ==
    (/\ op.name = "add_webview"
     /\ Unregistered(op.webview_id)
     /\ op.webview_id \in DOMAIN pre.webview_groups
     /\ pre.webview_groups[op.webview_id] # op.group_id
     /\ Live(op.group_id)) =>
        group_id(webview_groups, op.webview_id) = SomeOf(op.group_id)

\* What C26 says of a raise_to_top: it leaves what hide followed by show
\* leaves, and the webview last in its group's painting order.
RaiseIsHideThenShow ==
    LET v == op.webview_id
        h == hide(pre.webviews, pre.webview_groups, pre.painting_order, v)
        s == show(pre.webviews, pre.webview_groups, h.painting_order, v)
    IN  /\ ~Panicked
        /\ painting_order = s.painting_order
        /\ webviews = pre.webviews
        /\ webview_groups = pre.webview_groups
        /\ v \in DOMAIN webview_groups
        /\ webview_groups[v] \in DOMAIN painting_order
        /\ ~LastIsNot(painting_order[webview_groups[v]], v)

\* C26: raise_to_top of a registered webview leaves the state hide followed
\* by show leaves, with the webview last in its group's painting order.
C26_RaiseToTopIsHideThenShow ==
    (op.name = "raise_to_top" /\ Registered(op.webview_id)) => RaiseIsHideThenShow

\* C26 for the webviews whose group has a painting order.
C26_RaiseToTopIsHideThenShowOfLiveGroup ==
    (op.name = "raise_to_top" /\ Registered(op.webview_id)
        /\ HasPaintingOrder(op.webview_id)) => RaiseIsHideThenShow

\* C27: show, hide, raise_to_top and remove of a webview of a group, and
\* hide_all of a group, leave every other group's painting order as it was.
C27_OtherGroupsKept ==
    /\ op.name \in {"show", "hide", "raise_to_top", "remove"} =>
           IF op.webview_id \in DOMAIN pre.webview_groups
           THEN OtherOrdersKept(GroupOf(op.webview_id))
           ELSE painting_order = pre.painting_order
    /\ op.name = "hide_all" => OtherOrdersKept(op.group_id)

C27_Witness ==
    /\ op.name = "hide_all"
    /\ op.group_id = 2
    /\ ret = Bool(TRUE)
    /\ 1 \in DOMAIN painting_order
    /\ Len(painting_order[1]) = 2

\* C28: show, hide, raise_to_top and hide_all leave webviews and
\* webview_groups as they were; after hide of a registered webview get
\* still returns its webview and group_id its group.
C28_VisibilityOnly ==
    /\ op.name \in {"show", "hide", "raise_to_top", "hide_all"} =>
           /\ webviews = pre.webviews
           /\ webview_groups = pre.webview_groups
    /\ (op.name = "hide" /\ Registered(op.webview_id)) =>
           /\ get(webviews, op.webview_id) = SomeWebView(pre.webviews[op.webview_id])
           /\ group_id(webview_groups, op.webview_id)
                  = group_id(pre.webview_groups, op.webview_id)

C28_Witness ==
    /\ op.name = "hide"
    /\ ret = OkBool(TRUE)
    /\ get(webviews, op.webview_id) = SomeWebView("b")
    /\ Len(pre.painting_order[1]) = 2
    /\ Len(painting_order[1]) = 1

\* Where a webview stands: not in webviews, in webviews and in no painting
\* order, or in webviews and in a painting order.
Visibility(views, order, v) ==
    IF v \notin DOMAIN views THEN "Unregistered"
    ELSE IF \E g \in DOMAIN order : Occurs(order[g], v) THEN "Visible"
    ELSE "Hidden"

\* C29: a webview leaves Unregistered only by add_webview, and is Hidden
\* then; it becomes Visible only by show or raise_to_top; it goes back to
\* Hidden only by hide or by hide_all of its group; it becomes Unregistered
\* only by remove.
C29_VisibilityStateMachine ==
    \A v \in WebViewIds :
        LET a == Visibility(pre.webviews, pre.painting_order, v)
            b == Visibility(webviews, painting_order, v)
        IN  a # b =>
                \/ /\ a = "Unregistered" /\ b = "Hidden"
                   /\ op.name = "add_webview" /\ op.webview_id = v
                \/ /\ a = "Hidden" /\ b = "Visible"
                   /\ op.name \in {"show", "raise_to_top"} /\ op.webview_id = v
                \/ /\ a = "Visible" /\ b = "Hidden"
                   /\ \/ op.name = "hide" /\ op.webview_id = v
                      \/ /\ op.name = "hide_all"
                         /\ group_id(pre.webview_groups, v) = SomeOf(op.group_id)
                \/ /\ a # "Unregistered" /\ b = "Unregistered"
                   /\ op.name = "remove" /\ op.webview_id = v

C29_Witness ==
    /\ op.name = "remove"
    /\ Visibility(pre.webviews, pre.painting_order, op.webview_id) = "Visible"
    /\ Visibility(webviews, painting_order, op.webview_id) = "Unregistered"
    /\ \E v \in WebViewIds : Visibility(webviews, painting_order, v) = "Hidden"

C29_HideAllWitness ==
    /\ op.name = "hide_all"
    /\ Cardinality({v \in WebViewIds :
           /\ Visibility(pre.webviews, pre.painting_order, v) = "Visible"
           /\ Visibility(webviews, painting_order, v) = "Hidden"}) = 2

\* C30: every webview in webviews has a group that is live and has a
\* painting order; so show, hide, raise_to_top, remove and document_id of
\* a registered webview, and my_iter_mut, do not panic.
C30_RegisteredHaveLiveGroup ==
    /\ \A v \in DOMAIN webviews :
           /\ v \in DOMAIN webview_groups
           /\ webview_groups[v] \in DOMAIN rendering_contexts
           /\ webview_groups[v] \in DOMAIN painting_order
    /\ (\/ /\ op.name \in {"show", "hide", "raise_to_top", "remove", "document_id"}
           /\ Registered(op.webview_id)
        \/ op.name = "my_iter_mut") => ~Panicked

\* C31: the groups that have a painting order are the groups that have a
\* WebRenderInstance, so groups() lists exactly the live groups.
C31_SameGroups ==
    /\ DOMAIN painting_order = DOMAIN rendering_contexts
    /\ op.name = "groups" =>
           /\ Len(ret.seq) = Cardinality(DOMAIN rendering_contexts)
           /\ \A g \in GroupIds :
                  Occurs(ret.seq, g) <=> g \in DOMAIN rendering_contexts

C31_Witness ==
    /\ op.name = "groups"
    /\ ret = GroupIdsOf(<<2, 1>>)
    /\ DOMAIN rendering_contexts = {1, 2}

\* C32: the group id add_webview_group allocates never has a
\* WebRenderInstance already, so the assert before the insert holds and no
\* instance is overwritten.
C32_AssertHolds ==
    /\ \A g \in DOMAIN rendering_contexts :
           last_used_id.kind = "Some" /\ g <= last_used_id.num
    /\ op.name = "add_webview_group" =>
           /\ last_used_id.kind = "Some"
           /\ last_used_id.num \notin DOMAIN pre.rendering_contexts
           /\ \A g \in DOMAIN pre.rendering_contexts :
                  /\ g \in DOMAIN rendering_contexts
                  /\ rendering_contexts[g] = pre.rendering_contexts[g]

C32_Witness ==
    /\ op.name = "add_webview_group"
    /\ pre.last_used_id = SomeOf(1)
    /\ last_used_id = SomeOf(2)
    /\ DOMAIN rendering_contexts = {1, 2}
    /\ DOMAIN webviews # {}

====
